---- MODULE Spec2Model ----
(***************************************************************************)
(* DataLoader<DatasetType> of include/data/data.hpp driven over the        *)
(* IntDataset of tests/cpp/data/test_data.cpp.                             *)
(*                                                                         *)
(* The loader's fields keep their source names.  size_t is an unsigned     *)
(* word of WordBits bits, so current_index_ + batch_size_ wraps modulo     *)
(* 2^WordBits exactly as it does in the build.                             *)
(***************************************************************************)
EXTENDS Integers, Sequences, FiniteSets, TLC

\* ---------------------------------------------------------------- bounds
WordBits == 4                  \* width of size_t in the model
MaxN == 4                      \* largest dataset the model constructs
MaxResizeN == 3                \* largest dataset where the dataset may change
MaxConcN == 3                  \* largest dataset shared by two threads

WordMod == 2 ^ WordBits
\* std::vector<size_t>::max_size() is at most PTRDIFF_MAX elements: resize()
\* throws length_error beyond it, so no loader holds more indices than this.
VectorMaxSize == 2 ^ (WordBits - 1) - 1
\* history kept per epoch: enough for MaxN batches of one sample plus one
MaxBatches == MaxN + 1

Min(a, b) == IF a <= b THEN a ELSE b

Sizes == 0 .. Min(MaxN, VectorMaxSize)
BatchSizes == 0 .. (WordMod - 1)

\* ---------------------------------------------------------------- state
VARIABLES
    data,            \* IntDataset::data_
    batch_size_,     \* DataLoader::batch_size_
    shuffle_,        \* DataLoader::shuffle_
    indices_,        \* DataLoader::indices_
    current_index_,  \* DataLoader::current_index_
    ret,             \* what the last call returned to its caller
    epoch,           \* batches returned since construction / reset()
    calls,           \* indices handed to getItem since construction / reset()
    clean,           \* every nextBatch() of this epoch was made with hasNext()
    startedBy,       \* "construct" or "reset": what began this epoch
    prev,            \* the last completed epoch of this configuration when
                     \* it does not shuffle (what a repeat has to reproduce)
    threads,         \* per thread: where it is inside nextBatch() and the
                     \* locals end_index, i and batch of that call
    overlapped       \* some call of this epoch began or ran while another
                     \* thread was inside nextBatch()

vars == << data, batch_size_, shuffle_, indices_, current_index_,
           ret, epoch, calls, clean, startedBy, prev, threads, overlapped >>

\* the state of the threads, which calls made by a single caller never touch
local == << threads, overlapped >>

Threads == {1, 2}

\* a thread that is not inside any call
Idle == [pc |-> "idle", start |-> 0, end_index |-> 0, i |-> 0,
         hadNext |-> FALSE, batch |-> << >>, asked |-> << >>]

\* ---------------------------------------------------------------- dataset
\* IntDataset d({10, 11, 12, ...}): n consecutive integers starting at 10
IntDataset(n) == [i \in 1 .. n |-> 10 + (i - 1)]

\* IntDataset::size()
size == Len(data)

\* IntDataset::getItem(index) is data_.at(index): defined for index < size()
InRange(index) == index < size
getItem(index) == data[index + 1]

\* ---------------------------------------------------------------- helpers
\* std::iota(indices_.begin(), indices_.end(), 0) after resize(n)
iota_fromOne(n) == [i \in 1 .. n |-> i]
iota(n) == [i \in 1 .. n |-> i - 1]

\* std::shuffle(first, last, mt19937(random_device()())): some rearrangement
\* of the elements, which one depends on the seed
Shuffles(seq) ==
    { [i \in 1 .. Len(seq) |-> seq[p[i]]] : p \in Permutations(1 .. Len(seq)) }

\* the index orders the constructor can leave in indices_
ConstructOrder_alwaysShuffle(n, sh) == Shuffles(iota(n))
ConstructOrder(n, sh) == IF sh THEN Shuffles(iota(n)) ELSE {iota(n)}

\* the index orders reset() can leave in indices_
ResetOrder_alwaysShuffle(ind, sh) == Shuffles(ind)
ResetOrder_recapture(ind, sh) ==
    IF sh THEN Shuffles(iota(size)) ELSE {iota(size)}
ResetOrder(ind, sh) == IF sh THEN Shuffles(ind) ELSE {ind}

\* reset(): current_index_ = 0
ResetCursor_keep(cur) == cur
ResetCursor(cur) == 0

\* DataLoader::hasNext()
hasNext_le == current_index_ <= Len(indices_)
hasNext == current_index_ < Len(indices_)

\* size_t end_index = std::min(current_index_ + batch_size_, indices_.size())
EndIndex_oneShort(cur, bs, n) ==
    IF (cur + bs) % WordMod >= n /\ n > cur THEN n - 1 ELSE Min((cur + bs) % WordMod, n)
EndIndex(cur, bs, n) == Min((cur + bs) % WordMod, n)

\* for (size_t i = current_index_; i < end_index; ++i) ... indices_[i]
LoopFrom(ind, from, end) ==
    [k \in 1 .. (IF end > from THEN end - from ELSE 0) |-> ind[from + k]]
LoopIndices_skipFirst(ind, cur, end) == LoopFrom(ind, cur + 1, end)
LoopIndices_circular(ind, cur, end) ==
    LoopFrom(ind, IF Len(ind) > 0 THEN cur % Len(ind) ELSE cur, end)
LoopIndices(ind, cur, end) == LoopFrom(ind, cur, end)

\* current_index_ = end_index
AdvancedIndex_offByOne(cur, bs, end) == IF end > cur THEN end - 1 ELSE end
AdvancedIndex_addBatch(cur, bs, end) == (cur + bs) % WordMod
AdvancedIndex(cur, bs, end) == end

\* when getItem throws, the exception leaves nextBatch before line 116 runs
IndexAfterThrow_advanced(cur, end) == end
IndexAfterThrow(cur, end) == cur

\* asked: the indices the call handed to getItem, in order
Return(op, value, batch, threw, hadNext, before, asked) ==
    [op |-> op, value |-> value, batch |-> batch, threw |-> threw,
     hadNext |-> hadNext, before |-> before, asked |-> asked]

NoPrev == [valid |-> FALSE, batch_size |-> 0, shuffle |-> FALSE, batches |-> << >>]

\* the loop stops at the first getItem that throws
FirstBad(bad) == CHOOSE k \in bad : \A j \in bad : k <= j

\* an epoch is complete when it was driven by hasNext() and hasNext() is false
EpochComplete == clean /\ ~hasNext

\* the record of this epoch, kept when the next one begins
Remember ==
    IF EpochComplete /\ ~shuffle_
    THEN [valid |-> TRUE, batch_size |-> batch_size_, shuffle |-> shuffle_,
          batches |-> epoch]
    ELSE prev

\* ---------------------------------------------------------------- actions
\* DataLoader(dataset, batch_size, shuffle): the member initialisers, then
\* resize + iota + optional shuffle
Constructed(bs, sh) ==
    /\ batch_size_' = bs
    /\ shuffle_' = sh
    /\ current_index_' = 0
    /\ indices_' \in ConstructOrder(Len(data'), sh)
    /\ ret' = Return("construct", FALSE, << >>, FALSE, FALSE, 0, << >>)
    /\ epoch' = << >>
    /\ calls' = << >>
    /\ clean' = TRUE
    /\ startedBy' = "construct"

Init ==
    /\ data \in { IntDataset(n) : n \in Sizes }
    /\ batch_size_ \in BatchSizes
    /\ shuffle_ \in BOOLEAN
    /\ current_index_ = 0
    /\ indices_ \in ConstructOrder(Len(data), shuffle_)
    /\ ret = Return("construct", FALSE, << >>, FALSE, FALSE, 0, << >>)
    /\ epoch = << >>
    /\ calls = << >>
    /\ clean = TRUE
    /\ startedBy = "construct"
    /\ prev = NoPrev
    /\ threads = [t \in Threads |-> Idle]
    /\ overlapped = FALSE

\* a further loader constructed over the same dataset with the same arguments
Construct ==
    /\ data' = data
    /\ Constructed(batch_size_, shuffle_)
    /\ prev' = Remember
    /\ UNCHANGED local

\* bool hasNext() const
HasNext ==
    /\ ret' = Return("hasNext", hasNext, << >>, FALSE, hasNext, current_index_,
                    << >>)
    /\ UNCHANGED << data, batch_size_, shuffle_, indices_, current_index_,
                    epoch, calls, clean, startedBy, prev, local >>

\* std::vector<type_t> nextBatch()
nextBatch ==
    /\ Len(epoch) < MaxBatches
    /\ LET end_index == EndIndex(current_index_, batch_size_, Len(indices_))
           idx == LoopIndices(indices_, current_index_, end_index)
           bad == { k \in 1 .. Len(idx) : ~InRange(idx[k]) }
       IN  IF bad = {}
           THEN \* every getItem succeeded: the batch is returned
                LET batch == [k \in 1 .. Len(idx) |-> getItem(idx[k])]
                IN  /\ current_index_' =
                           AdvancedIndex(current_index_, batch_size_, end_index)
                    /\ ret' = Return("nextBatch", FALSE, batch, FALSE,
                                     hasNext, current_index_, idx)
                    /\ clean' = (clean /\ hasNext)
                    /\ epoch' = IF clean' THEN Append(epoch, batch) ELSE << >>
                    /\ calls' = IF clean' THEN calls \o idx ELSE << >>
           ELSE \* data_.at() threw std::out_of_range at the first bad index:
                \* current_index_ = end_index is never reached
                /\ current_index_' = IndexAfterThrow(current_index_, end_index)
                /\ ret' = Return("nextBatch", FALSE, << >>, TRUE,
                                 hasNext, current_index_,
                                 SubSeq(idx, 1, FirstBad(bad)))
                /\ clean' = FALSE
                /\ epoch' = << >>
                /\ calls' = << >>
    /\ UNCHANGED << data, batch_size_, shuffle_, indices_, startedBy, prev,
                    local >>

\* void reset()
ResetBody ==
    /\ current_index_' = ResetCursor(current_index_)
    /\ indices_' \in ResetOrder(indices_, shuffle_)
    /\ ret' = Return("reset", FALSE, << >>, FALSE, hasNext, current_index_,
                    << >>)
    /\ epoch' = << >>
    /\ calls' = << >>
    /\ clean' = TRUE
    /\ startedBy' = "reset"
    /\ prev' = Remember
    /\ UNCHANGED << data, batch_size_, shuffle_ >>

reset == ResetBody /\ UNCHANGED local

Next ==
    \/ Construct
    \/ HasNext
    \/ nextBatch
    \/ reset

Spec == Init /\ [][Next]_vars

\* ---------------------------------------------------------------- claims
RECURSIVE Flatten(_)
Flatten(batches) ==
    IF batches = << >> THEN << >> ELSE Head(batches) \o Flatten(Tail(batches))

Range(seq) == { seq[i] : i \in 1 .. Len(seq) }
NoDup(seq) == \A i, j \in 1 .. Len(seq) : seq[i] = seq[j] => i = j
IsPermutationOfIndices(seq, n) ==
    /\ Len(seq) = n
    /\ Range(seq) = 0 .. (n - 1)
    /\ NoDup(seq)

\* the lengths the batches of a complete epoch over n samples must have
LengthsAsSpecified(batches, n, bs) ==
    /\ Len(Flatten(batches)) = n
    /\ \A i \in 1 .. Len(batches) - 1 : Len(batches[i]) = bs
    /\ n = 0 => batches = << >>
    /\ n > 0 => /\ batches # << >>
                /\ Len(batches[Len(batches)]) =
                       (IF n % bs = 0 THEN bs ELSE n % bs)

\* C1: in an epoch driven by hasNext(), with batchSize >= 1 and either
\* shuffle setting, no index is delivered twice, only indices of 0..N-1 are
\* delivered, the samples returned are those of the delivered indices, and
\* once the epoch is complete the delivered indices are a permutation of
\* 0..N-1.
C1_EveryIndexExactlyOnce ==
    (batch_size_ >= 1 /\ clean) =>
        /\ NoDup(calls)
        /\ Range(calls) \subseteq 0 .. (size - 1)
        /\ Flatten(epoch) = [k \in 1 .. Len(calls) |-> data[calls[k] + 1]]
        /\ ~hasNext => IsPermutationOfIndices(calls, size)

C1_Witness ==
    /\ shuffle_ /\ EpochComplete
    /\ size = 4 /\ batch_size_ = 3
    /\ Len(epoch) = 2 /\ Len(epoch[2]) = 1
    /\ calls = << 2, 0, 3, 1 >>

\* C2: for batchSize >= 1, in an epoch driven by hasNext() no batch is empty
\* and every batch but the newest has length batchSize; once the epoch is
\* complete the lengths sum to N and the last batch has length N mod
\* batchSize, or batchSize when that is 0 and N > 0.
C2_BatchLengths ==
    (batch_size_ >= 1 /\ clean) =>
        /\ \A i \in 1 .. Len(epoch) : Len(epoch[i]) >= 1
        /\ \A i \in 1 .. Len(epoch) - 1 : Len(epoch[i]) = batch_size_
        /\ \A i \in 1 .. Len(epoch) : Len(epoch[i]) <= batch_size_
        /\ ~hasNext => LengthsAsSpecified(epoch, size, batch_size_)

C2_Witness ==
    /\ EpochComplete /\ size = 3 /\ batch_size_ = 2
    /\ Len(epoch) = 2 /\ Len(epoch[1]) = 2 /\ Len(epoch[2]) = 1

\* C3: with shuffle disabled and batchSize >= 1, the batches of an epoch
\* driven by hasNext() concatenate to the dataset's samples in natural order:
\* a prefix of them while the epoch runs, all of them when it is complete.
C3_NaturalOrder ==
    (~shuffle_ /\ batch_size_ >= 1 /\ clean) =>
        /\ Flatten(epoch) = SubSeq(data, 1, current_index_)
        /\ ~hasNext => Flatten(epoch) = data

C3_Witness ==
    /\ ~shuffle_ /\ EpochComplete /\ batch_size_ = 2
    /\ data = << 10, 11, 12, 13 >>
    /\ epoch = << << 10, 11 >>, << 12, 13 >> >>
    /\ ret.op = "hasNext" /\ ret.value = FALSE

\* C4: indices_ is always a permutation of exactly 0..size-1.
C4_IndexOrderIsPermutation ==
    IsPermutationOfIndices(indices_, size)

C4_Witness ==
    /\ shuffle_ /\ ret.op = "reset" /\ ret.hadNext /\ ret.before > 0
    /\ indices_ = << 3, 1, 0, 2 >>

\* C5: 0 <= cursor <= size always, and hasNext() is false exactly when
\* cursor = size.
C5_CursorInBounds ==
    /\ 0 <= current_index_
    /\ current_index_ <= Len(indices_)
    /\ Len(indices_) = size
    /\ (~hasNext) <=> (current_index_ = size)
    /\ ret.op = "hasNext" => (ret.value <=> current_index_ < size)

C5_Witness ==
    /\ ret.op = "nextBatch" /\ ~ret.hadNext
    /\ size = 3 /\ batch_size_ = 2 /\ current_index_ = 3

\* C6: no loader with batchSize < 1 exists (construction with batchSize 0
\* fails), so a nextBatch() made while hasNext() is true always advances the
\* cursor.
C6_BatchSizeValidated ==
    /\ batch_size_ >= 1
    /\ (ret.op = "nextBatch" /\ ret.hadNext) => current_index_ > ret.before

\* C7: a nextBatch() made while the iterator is exhausted fails with an
\* error instead of returning a batch.
C7_ExhaustedNextBatchFails ==
    (ret.op = "nextBatch" /\ ~ret.hadNext) => ret.threw

\* C7 as amended: a nextBatch() made while the iterator is exhausted does not
\* fail; it returns an empty batch.
C7_ExhaustedNextBatchReturnsEmpty ==
    (ret.op = "nextBatch" /\ ~ret.hadNext) =>
        /\ ~ret.threw
        /\ ret.batch = << >>

C7_Witness ==
    /\ ret.op = "nextBatch" /\ ~ret.hadNext
    /\ size = 3 /\ batch_size_ = 2 /\ ret.before = 3

\* C8: reset() leaves the cursor at 0, so hasNext() is true right after it
\* when N > 0, and an epoch begun by reset() and driven by hasNext() to its
\* end delivers N samples in batches of length batchSize except possibly the
\* last.
C8_ResetRestartsEpoch ==
    /\ ret.op = "reset" =>
           /\ current_index_ = 0
           /\ epoch = << >>
           /\ size > 0 => hasNext
    /\ (startedBy = "reset" /\ batch_size_ >= 1 /\ EpochComplete) =>
           /\ Len(calls) = size
           /\ LengthsAsSpecified(epoch, size, batch_size_)

C8_Witness ==
    /\ startedBy = "reset" /\ EpochComplete /\ shuffle_
    /\ size = 4 /\ batch_size_ = 3
    /\ Len(epoch) = 2 /\ Len(epoch[1]) = 3 /\ Len(epoch[2]) = 1

\* C9: with shuffle disabled, indices_ stays the identity order, and a
\* complete epoch repeats the batches, contents and order, of the complete
\* epoch made before it with the same batchSize, whether the two are
\* separated by reset() or belong to two loaders.
C9_DeterministicWithoutShuffle ==
    ~shuffle_ =>
        /\ indices_ = [i \in 1 .. size |-> i - 1]
        /\ (prev.valid /\ prev.batch_size = batch_size_ /\ EpochComplete) =>
               epoch = prev.batches

C9_Witness ==
    /\ ~shuffle_ /\ startedBy = "reset" /\ EpochComplete
    /\ prev.valid /\ prev.batch_size = 3 /\ batch_size_ = 3
    /\ epoch = << << 10, 11, 12 >>, << 13 >> >>

\* C10: right after construction and right after every reset(), hasNext() is
\* true exactly when the dataset is not empty; over an empty dataset
\* hasNext() never returns true.
C10_EmptyDatasetStartsExhausted ==
    /\ ret.op \in {"construct", "reset"} => (hasNext <=> size > 0)
    /\ (size = 0 /\ ret.op = "hasNext") => ret.value = FALSE

C10_Witness ==
    /\ size = 0 /\ ret.op = "reset" /\ shuffle_ /\ ~hasNext

\* C12: a nextBatch() made while hasNext() is true computes
\* end = min(cursor + batchSize, size), returns the samples of
\* indexOrder[cursor .. end-1] in that order, sets cursor = end, and leaves
\* indexOrder, batchSize and the shuffle flag unchanged.
C12_SingleNextBatch ==
    [][ (ret'.op = "nextBatch" /\ hasNext) =>
            LET end == Min(current_index_ + batch_size_, size)
            IN  /\ ~ret'.threw
                /\ ret'.batch = [k \in 1 .. (end - current_index_) |->
                                     data[indices_[current_index_ + k] + 1]]
                /\ current_index_' = end
                /\ UNCHANGED << indices_, batch_size_, shuffle_ >> ]_vars

\* C14: the cursor changes only in nextBatch(), which never decreases it, and
\* in reset() (or the construction of a loader), which sets it to 0, whatever
\* the batchSize; an exhausted iterator becomes Active again only through
\* reset() or construction.
C14_CursorOnlyAdvances ==
    [][ /\ current_index_' # current_index_ =>
               \/ ret'.op = "nextBatch" /\ current_index_' > current_index_
               \/ ret'.op \in {"reset", "construct"} /\ current_index_' = 0
        /\ (~hasNext /\ hasNext') => ret'.op \in {"reset", "construct"} ]_vars

\* C17: over a dataset of unchanging size, every index a nextBatch() hands
\* to getItem lies in 0..size-1, so getItem never throws out_of_range, also
\* for calls made after the iterator was exhausted.
C17_OnlyValidIndicesRequested ==
    ret.op = "nextBatch" =>
        /\ \A k \in 1 .. Len(ret.asked) : ret.asked[k] \in 0 .. (size - 1)
        /\ ~ret.threw
        /\ Len(ret.batch) = Len(ret.asked)

C17_Witness ==
    /\ ret.op = "nextBatch" /\ ~clean /\ ret.hadNext
    /\ shuffle_ /\ size = 4
    /\ ret.before = 1 /\ ret.asked = << 3, 0, 2 >>

\* C19: for batchSize >= 1 with cursor + batchSize inside the machine word, a
\* nextBatch() made on an exhausted iterator returns an empty batch, hands no
\* index to getItem, leaves cursor and indexOrder unchanged, and so leaves
\* the iterator exhausted.
C19_ExhaustedNextBatchIsNoOp ==
    [][ ( /\ ret'.op = "nextBatch"
          /\ current_index_ = Len(indices_)
          /\ batch_size_ >= 1
          /\ current_index_ + batch_size_ < WordMod ) =>
            /\ ret'.batch = << >>
            /\ ret'.asked = << >>
            /\ ~ret'.threw
            /\ current_index_' = current_index_
            /\ indices_' = indices_
            /\ ~hasNext' ]_vars

C19_Witness ==
    /\ ret.op = "nextBatch" /\ ~ret.hadNext /\ ret.batch = << >>
    /\ shuffle_ /\ size = 4 /\ batch_size_ = 3
    /\ ret.before = 4 /\ current_index_ = 4

\* ---------------------------------------------------------------- the caller loop
\* while (loader.hasNext()) { auto b = loader.nextBatch(); ... }  and the
\* loader.reset() that follows it: the condition is evaluated, the body runs
\* only when it returned true, and reset() is called once the loop has ended.
LoopDone == ret.op = "hasNext" /\ ~ret.value

LoopCheck == ret.op # "hasNext" /\ HasNext

LoopBody == ret.op = "hasNext" /\ ret.value /\ nextBatch

LoopReset == LoopDone /\ reset

LoopNext ==
    \/ LoopCheck
    \/ LoopBody
    \/ LoopReset

\* the caller is sequential code: a step it can take, it takes
LoopSpec ==
    Init /\ [][LoopNext]_vars /\ WF_vars(LoopCheck) /\ WF_vars(LoopBody)

CeilDiv(n, b) == (n + b - 1) \div b

\* C13: for batchSize >= 1 the caller loop 'while hasNext(): nextBatch()'
\* terminates: every nextBatch() it makes strictly increases the cursor, the
\* loop started by construction or reset() reaches the point where hasNext()
\* returns false, and it has then made exactly ceil(N / batchSize)
\* nextBatch() calls.
C13_LoopTerminates ==
    /\ [][ (batch_size_ >= 1 /\ ret'.op = "nextBatch") =>
               current_index_' > current_index_ ]_vars
    /\ []( (batch_size_ >= 1 /\ LoopDone) =>
               /\ current_index_ = size
               /\ Len(epoch) = CeilDiv(size, batch_size_) )
    /\ ( (batch_size_ >= 1 /\ ret.op \in {"construct", "reset"}) ~> LoopDone )

C13_Witness ==
    /\ LoopDone /\ startedBy = "reset" /\ shuffle_
    /\ size = 4 /\ batch_size_ = 3 /\ Len(epoch) = 2

\* ---------------------------------------------------------------- a dataset that changes
\* The loader holds a reference to a dataset it does not own (dataset_), and
\* Dataset::size() is virtual: a PyDataset answers it from its Python
\* override, so the owner can make the dataset longer or shorter between two
\* calls on the loader.
ResizeSizes == 0 .. Min(MaxResizeN, VectorMaxSize)

DatasetResize ==
    \E n \in ResizeSizes :
        /\ n # size
        /\ data' = IntDataset(n)
        /\ ret' = Return("resize", FALSE, << >>, FALSE, hasNext, current_index_,
                         << >>)
        /\ UNCHANGED << batch_size_, shuffle_, indices_, current_index_,
                        epoch, calls, clean, startedBy, prev, local >>

MutNext ==
    \/ Construct
    \/ HasNext
    \/ nextBatch
    \/ reset
    \/ DatasetResize

MutInit == Init /\ size \in ResizeSizes

MutSpec == MutInit /\ [][MutNext]_vars

\* C15: right after every reset() the length of indexOrder equals the size
\* the dataset reports at that moment.
C15_SizeRecapturedAtReset ==
    ret.op = "reset" => Len(indices_) = size

\* C15 as amended: the dataset's size is captured at construction only; every
\* other call, reset() included, leaves the length of indexOrder as it was,
\* whatever the dataset reports, and hasNext() compares the cursor with that
\* length.
C15_SizeCapturedAtConstruction ==
    [][ /\ IF ret'.op = "construct"
           THEN Len(indices_') = Len(data')
           ELSE Len(indices_') = Len(indices_)
        /\ ret'.op = "hasNext" =>
               (ret'.value <=> current_index_ < Len(indices_)) ]_vars

C15_Witness ==
    /\ ret.op = "reset" /\ Len(indices_) = 2 /\ size = 3 /\ hasNext

\* the indices a nextBatch() made in the given loader state hands to getItem,
\* up to and including the first one the dataset rejects
WouldAsk(ind, cur, bs, n) ==
    LET idx == LoopFrom(ind, cur, Min((cur + bs) % WordMod, Len(ind)))
        bad == { k \in 1 .. Len(idx) : idx[k] >= n }
    IN  IF bad = {} THEN idx
        ELSE SubSeq(idx, 1, CHOOSE k \in bad : \A j \in bad : k <= j)

\* C16: a nextBatch() in which getItem fails returns no batch and leaves
\* cursor, indexOrder and the configuration as they were, so the indices it
\* asked for are those a repeated call asks for again.
C16_FailedBatchLeavesStateUnchanged ==
    [][ (ret'.op = "nextBatch" /\ ret'.threw) =>
            /\ ret'.batch = << >>
            /\ current_index_' = current_index_
            /\ UNCHANGED << indices_, batch_size_, shuffle_, data >>
            /\ ret'.asked = WouldAsk(indices_', current_index_', batch_size_',
                                     Len(data')) ]_vars

C16_Witness ==
    /\ ret.op = "nextBatch" /\ ret.threw /\ ret.hadNext
    /\ batch_size_ = 3 /\ current_index_ = 0 /\ size = 2
    /\ ret.asked = << 1, 2 >>

\* ---------------------------------------------------------------- two threads, one loader
\* Two threads run the caller loop on the same loader with no lock.  A call
\* of nextBatch() is no longer one step: line 112 reads current_index_ into
\* end_index, line 113 reads it again into i, each turn of the loop reads one
\* element of indices_, and line 116 writes current_index_.
ConcSizes == 0 .. Min(MaxConcN, VectorMaxSize)

ConcInit == Init /\ size \in ConcSizes

InFlight == { t \in Threads : threads[t].pc # "idle" }

\* line 112, entered because this thread's hasNext() returned true
T_ReadEnd(t) ==
    /\ threads[t].pc = "idle"
    /\ hasNext
    /\ Len(epoch) + Cardinality(InFlight) < MaxBatches
    /\ threads' = [threads EXCEPT ![t] =
           [Idle EXCEPT !.pc = "init",
                        !.hadNext = hasNext,
                        !.end_index = EndIndex(current_index_, batch_size_,
                                               Len(indices_))]]
    /\ overlapped' = (overlapped \/ InFlight # {})
    /\ UNCHANGED << data, batch_size_, shuffle_, indices_, current_index_,
                    ret, epoch, calls, clean, startedBy, prev >>

\* line 113: size_t i = current_index_
T_InitLoop(t) ==
    /\ threads[t].pc = "init"
    /\ threads' = [threads EXCEPT ![t].pc = "loop",
                                  ![t].start = current_index_,
                                  ![t].i = current_index_]
    /\ UNCHANGED << data, batch_size_, shuffle_, indices_, current_index_,
                    ret, epoch, calls, clean, startedBy, prev, overlapped >>

\* lines 113-115: one turn of the loop, i < end_index
T_PushBack(t) ==
    /\ threads[t].pc = "loop"
    /\ threads[t].i < threads[t].end_index
    /\ LET index == indices_[threads[t].i + 1]
       IN  IF InRange(index)
           THEN /\ threads' = [threads EXCEPT
                       ![t].batch = Append(@, getItem(index)),
                       ![t].asked = Append(@, index),
                       ![t].i = @ + 1]
                /\ UNCHANGED << ret, clean, epoch, calls >>
           ELSE \* getItem threw: the call is left without a batch
                /\ threads' = [threads EXCEPT ![t] = Idle]
                /\ ret' = Return("nextBatch", FALSE, << >>, TRUE,
                                 threads[t].hadNext, threads[t].start,
                                 Append(threads[t].asked, index))
                /\ clean' = FALSE
                /\ epoch' = << >>
                /\ calls' = << >>
    /\ UNCHANGED << data, batch_size_, shuffle_, indices_, current_index_,
                    startedBy, prev, overlapped >>

\* lines 116-117: the loop has ended; current_index_ = end_index; return batch
T_Store(t) ==
    /\ threads[t].pc = "loop"
    /\ ~(threads[t].i < threads[t].end_index)
    /\ current_index_' = AdvancedIndex(threads[t].start, batch_size_,
                                       threads[t].end_index)
    /\ ret' = Return("nextBatch", FALSE, threads[t].batch, FALSE,
                     threads[t].hadNext, threads[t].start, threads[t].asked)
    /\ clean' = (clean /\ threads[t].hadNext)
    /\ epoch' = IF clean' THEN Append(epoch, threads[t].batch) ELSE << >>
    /\ calls' = IF clean' THEN calls \o threads[t].asked ELSE << >>
    /\ threads' = [threads EXCEPT ![t] = Idle]
    /\ UNCHANGED << data, batch_size_, shuffle_, indices_, startedBy, prev,
                    overlapped >>

\* reset() called by a thread that is in no call, whatever the other does;
\* the threads reset the loader once, as the test does between its two epochs
T_Reset(t) ==
    /\ threads[t].pc = "idle"
    /\ startedBy = "construct"
    /\ ResetBody
    /\ overlapped' = (InFlight # {})
    /\ UNCHANGED threads

ConcNext ==
    \E t \in Threads :
        \/ T_ReadEnd(t)
        \/ T_InitLoop(t)
        \/ T_PushBack(t)
        \/ T_Store(t)
        \/ T_Reset(t)

ConcSpec == ConcInit /\ [][ConcNext]_vars

\* the indices delivered in this epoch, with those of calls still running
Delivered ==
    LET RECURSIVE Pending(_)
        Pending(S) ==
            IF S = {} THEN << >>
            ELSE LET t == CHOOSE u \in S : TRUE
                 IN  threads[t].asked \o Pending(S \ {t})
    IN  calls \o Pending(InFlight)

\* C18: as long as no call of the epoch ran while another thread was inside
\* nextBatch(), every index is delivered at most once and, at the end of the
\* epoch, exactly once; the loader itself does nothing to keep calls apart
\* (the witness is an epoch of overlapping calls that delivered an index
\* twice).
C18_SerialCallsDeliverExactlyOnce ==
    (~overlapped /\ batch_size_ >= 1 /\ clean) =>
        /\ NoDup(Delivered)
        /\ Cardinality(InFlight) <= 1
        /\ (InFlight = {} /\ ~hasNext) => IsPermutationOfIndices(calls, size)

C18_Witness ==
    /\ overlapped /\ clean /\ InFlight = {} /\ ~hasNext
    /\ batch_size_ = 2 /\ size = 3
    /\ ~NoDup(calls)
    /\ startedBy = "construct"

====
